---- MODULE Spec2Model ----
(***************************************************************************)
(* Resumable batch regeneration of Ticket tokens: the four management      *)
(* commands protect_tickets (V0), protect_tickets_improve_v1 (V1),         *)
(* protect_tickets_improve_v2 (V2) and protect_tickets_improve_v3 (V3),    *)
(* the Celery task update_ticket_batch, and the checkpoint stores (the     *)
(* file last_processed_id.txt, the two Redis keys).                        *)
(*                                                                         *)
(* One behaviour follows one command variant on one database and one       *)
(* checkpoint store.  The runner is a sequential process whose position is *)
(* pc; the process can be terminated at any position (Kill) and the        *)
(* command started again; tickets can be inserted concurrently; Celery     *)
(* workers execute enqueued tasks concurrently with the runner.            *)
(*                                                                         *)
(* A database operation or an enqueue can fail with an exception.          *)
(* Environment assumptions: the checkpoint file is always writable (the    *)
(* IOError handler of V1 never runs); rows are not deleted during a run;   *)
(* a write to the checkpoint file reaches the disk when the file is closed *)
(* (both lines are buffered), so a process terminated between open() and   *)
(* close() leaves the truncated, empty file.                               *)
(***************************************************************************)
EXTENDS Integers, Sequences, FiniteSets, Bags, TLC

\* ------------------------------------------------------------- bounds
MaxInitId   == 2    \* tickets present at the start have ids in 1..MaxInitId
MaxInserts  == 1    \* tickets inserted concurrently during a behaviour
MaxBatch    == 2    \* largest --batch-size given on the command line
MaxRuns     == 2    \* how many times the command is started
MaxElapsed  == 1    \* clock ticks observed over all runs

\* ------------------------------------------------- program constants
BATCH_SIZE_V0 == 1000
BATCH_SIZE    == 500

Variants == {"V0", "V1", "V2", "V3"}
Inline(v)    == v \in {"V0", "V1"}
Deferred(v)  == v \in {"V2", "V3"}
FileStore(v) == v \in {"V0", "V1", "V2"}

\* Python's None for an option that was not given
None == -1

VARIABLES
    variant,                \* which command is being run
    tickets,                \* ids of the rows of Ticket
    gen,                    \* id -> number of committed token regenerations
    inserts,                \* rows inserted so far (ids grow with the sequence)
    store,                  \* the checkpoint store
    queue,                  \* bag of enqueued update_ticket_batch(start, end)
    pc,                     \* position of the runner
    batch_size, reset,      \* the options of the run
    total_records, last_processed_id, previous_elapsed_time,
    runtime,                \* time.time() - start_time when last read
    elapsed_time, batch,    \* locals of handle
    tx,                     \* ids updated in the open transaction
    progress,               \* the last progress line
    runs,                   \* number of starts
    stored_at_start,        \* history: the store when the run started
    start_cursor,           \* history: the cursor the run loaded
    batches,                \* history: the batches of the run, in order
    written,                \* history: the cursors the run saved, in order
    enqueued                \* history: the ranges the run enqueued, in order

vars == <<variant, tickets, gen, inserts, store, queue, pc, batch_size,
          reset, total_records, last_processed_id, previous_elapsed_time, runtime,
          elapsed_time, batch, tx, progress, runs, stored_at_start,
          start_cursor, batches, written, enqueued>>

db      == <<tickets, gen, inserts>>
locals  == <<batch_size, reset, total_records, last_processed_id,
             previous_elapsed_time, elapsed_time, batch>>
history == <<stored_at_start, start_cursor, batches, written, enqueued>>

\* ------------------------------------------------------ pure helpers
Min(S) == CHOOSE m \in S : \A x \in S : m <= x
Max(S) == CHOOSE m \in S : \A x \in S : m >= x

RECURSIVE OrderById(_)
OrderById(S) == IF S = {} THEN <<>>
                ELSE <<Min(S)>> \o OrderById(S \ {Min(S)})

Range(s) == {s[i] : i \in 1..Len(s)}

\* mutant of Slice: the slice takes one element too many
SliceOneMore(s, n) == IF n = None THEN s
                      ELSE SubSeq(s, 1, IF n + 1 < Len(s) THEN n + 1 ELSE Len(s))

\* seq[:n] of Python: everything when n is None
Slice(s, n) == IF n = None THEN s
               ELSE SubSeq(s, 1, IF n < Len(s) THEN n ELSE Len(s))

\* mutant of NextBatch: id__gte instead of id__gt
NextBatchFromCursor(rows, after, limit) ==
    Slice(OrderById({i \in rows : i >= after}), limit)

\* mutant of NextBatch: the filter on the cursor is missing
NextBatchUnfiltered(rows, after, limit) ==
    Slice(OrderById(rows), limit)

\* Ticket.objects.filter(id__gt=after).order_by('id')[:limit]
NextBatch(rows, after, limit) ==
    Slice(OrderById({i \in rows : i > after}), limit)

\* mutant of CountUpTo: the rows above the cursor are counted (id__gt)
CountAbove(rows, cursor) == Cardinality({i \in rows : i > cursor})

\* Ticket.objects.filter(id__lte=cursor).count()
CountUpTo(rows, cursor) == Cardinality({i \in rows : i <= cursor})

\* --------------------------------------------- stored text and parsing
\* A stored value (a line of the file, the value of a Redis key) is the
\* text of an int, the text of a float, some other text, or missing.
NoVal      == [k |-> "none",  v |-> 0]
Junk       == [k |-> "junk",  v |-> 0]
IntText(n) == [k |-> "int",   v |-> n]     \* f"{last_processed_id}"
FloatText(x) == [k |-> "float", v |-> x]   \* f"{elapsed_time}"

ValueError == -2
\* int(text): only the text of an int parses
ParseInt(t)   == IF t.k = "int" THEN t.v ELSE ValueError
\* float(text): the text of an int or of a float parses
ParseFloat(t) == IF t.k \in {"int", "float"} THEN t.v ELSE ValueError

Default == [id |-> 0, el |-> 0, err |-> FALSE]
Raised  == [id |-> 0, el |-> 0, err |-> TRUE]

\* The store: for the file, whether it exists and its first two lines;
\* for Redis, the two keys (exists is TRUE throughout).
Absent == [exists |-> FALSE, id |-> NoVal, el |-> NoVal]
Empty  == [exists |-> TRUE,  id |-> NoVal, el |-> NoVal]

\* get_checkpoint of V0 and V2: FileNotFoundError and ValueError give the default
GetCheckpointFile(st) ==
    IF ~st.exists \/ ParseInt(st.id) = ValueError \/ ParseFloat(st.el) = ValueError
    THEN Default
    ELSE [id |-> ParseInt(st.id), el |-> ParseFloat(st.el), err |-> FALSE]

\* get_last_processed_ticket_id of V1: int(f.read().strip()) of the whole file
GetLastProcessedTicketId(st) ==
    IF ~st.exists \/ st.el # NoVal \/ ParseInt(st.id) = ValueError
    THEN Default
    ELSE [id |-> ParseInt(st.id), el |-> 0, err |-> FALSE]

\* get_checkpoint of V3: a missing key gives the default, int() and float()
\* of the values are not guarded
GetCheckpointRedis(st) ==
    IF st.id = NoVal \/ st.el = NoVal THEN Default
    ELSE IF ParseInt(st.id) = ValueError \/ ParseFloat(st.el) = ValueError
         THEN Raised
         ELSE [id |-> ParseInt(st.id), el |-> ParseFloat(st.el), err |-> FALSE]

GetCheckpoint(v, st) ==
    CASE v = "V1" -> GetLastProcessedTicketId(st)
      [] v = "V3" -> GetCheckpointRedis(st)
      [] OTHER    -> GetCheckpointFile(st)

\* batch_size = kwargs.get('batch_size', BATCH_SIZE): the key is always
\* present, so the fallback is never used; V0 declares no default for the
\* option and gets None, the others get the parser's default
HandleBatchSize(v, opt) ==
    IF opt # None THEN opt
    ELSE IF v = "V0" THEN None ELSE BATCH_SIZE

\* ------------------------------------------------------------- Init
NoProgress == [processed |-> 0, total |-> 0, elapsed |-> 0]

Init ==
    /\ variant \in Variants
    /\ tickets \in SUBSET (1..MaxInitId)
    /\ gen = [i \in 1..(MaxInitId + MaxInserts) |-> 0]
    /\ inserts = 0
    /\ store = IF FileStore(variant) THEN Absent ELSE Empty
    /\ queue = EmptyBag
    /\ pc = "idle"
    /\ batch_size = None
    /\ reset = FALSE
    /\ total_records = 0
    /\ last_processed_id = 0
    /\ previous_elapsed_time = 0
    /\ runtime = 0
    /\ elapsed_time = 0
    /\ batch = <<>>
    /\ tx = {}
    /\ progress = NoProgress
    /\ runs = 0
    /\ stored_at_start = store
    /\ start_cursor = 0
    /\ batches = <<>>
    /\ written = <<>>
    /\ enqueued = <<>>

ClearLocals ==
    /\ batch_size' = None
    /\ reset' = FALSE
    /\ total_records' = 0
    /\ last_processed_id' = 0
    /\ previous_elapsed_time' = 0
    /\ runtime' = 0
    /\ elapsed_time' = 0
    /\ batch' = <<>>
    /\ progress' = NoProgress

ClearHistory ==
    /\ stored_at_start' = store
    /\ start_cursor' = 0
    /\ batches' = <<>>
    /\ written' = <<>>
    /\ enqueued' = <<>>

\* the process is not running: never started or terminated ("idle"), returned
\* from handle ("completed"), or ended by an uncaught exception; handle has
\* no try block, so a DatabaseError of the ORM or an OperationalError of
\* the broker ends the run like any other exception
Stopped == pc \in {"idle", "completed", "ValueError", "ZeroDivisionError",
                   "DatabaseError", "OperationalError"}
Running == ~Stopped

\* --------------------------------------------------------- the runner
\* manage.py <command> [--batch-size opt] [--reset]: handle is entered
Start(opt, rs) ==
    /\ Stopped
    /\ runs < MaxRuns
    /\ rs => variant = "V3"
    /\ runs' = runs + 1
    /\ batch_size' = HandleBatchSize(variant, opt)
    /\ reset' = rs
    /\ total_records' = 0
    /\ last_processed_id' = 0
    /\ previous_elapsed_time' = 0
    /\ runtime' = 0
    /\ elapsed_time' = 0
    /\ batch' = <<>>
    /\ progress' = NoProgress
    /\ ClearHistory
    /\ pc' = IF rs THEN "reset_last_id" ELSE "count"
    /\ UNCHANGED <<variant, db, store, queue, tx>>

\* mutant of DeleteKey: the delete names a key that does not exist
DeleteOtherKey(st, key) == st

\* redis_client.delete(key)
DeleteKey(st, key) == IF key = "id" THEN [st EXCEPT !.id = NoVal]
                      ELSE [st EXCEPT !.el = NoVal]

\* reset_checkpoint, first delete
ResetDeleteLastId ==
    /\ pc = "reset_last_id"
    /\ store' = DeleteKey(store, "id")
    /\ pc' = "reset_elapsed"
    /\ UNCHANGED <<variant, db, queue, locals, runtime, tx, progress, runs, history>>

\* reset_checkpoint, second delete
ResetDeleteElapsed ==
    /\ pc = "reset_elapsed"
    /\ store' = DeleteKey(store, "el")
    /\ pc' = "count"
    /\ UNCHANGED <<variant, db, queue, locals, runtime, tx, progress, runs, history>>

\* total_records = Ticket.objects.count(); V1..V3 return when it is 0
CountRecords ==
    /\ pc = "count"
    /\ total_records' = Cardinality(tickets)
    /\ pc' = IF Cardinality(tickets) = 0 /\ variant # "V0" THEN "completed" ELSE "load"
    /\ UNCHANGED <<variant, db, store, queue, batch_size, reset, last_processed_id,
                   previous_elapsed_time, runtime, elapsed_time, batch, tx,
                   progress, runs, history>>

\* get_checkpoint and start_time = time.time()
LoadCheckpoint ==
    /\ pc = "load"
    /\ LET cp == GetCheckpoint(variant, store) IN
         IF cp.err
         THEN /\ pc' = "ValueError"
              /\ UNCHANGED <<last_processed_id, previous_elapsed_time, start_cursor>>
         ELSE /\ pc' = "fetch"
              /\ last_processed_id' = cp.id
              /\ previous_elapsed_time' = cp.el
              /\ start_cursor' = cp.id
    /\ runtime' = 0
    /\ UNCHANGED <<variant, db, store, queue, batch_size, reset, total_records,
                   elapsed_time, batch, tx, progress, runs, stored_at_start,
                   batches, written, enqueued>>

\* the head of the loop: the next batch, or the end of the run
FetchBatch ==
    /\ pc = "fetch"
    /\ LET b == NextBatch(tickets, last_processed_id, batch_size) IN
         /\ batch' = b
         /\ IF b = <<>>
            THEN pc' = "completed" /\ UNCHANGED batches
            ELSE /\ pc' = IF Inline(variant) THEN "mutate" ELSE "dispatch"
                 /\ batches' = Append(batches, b)
    /\ UNCHANGED <<variant, db, store, queue, batch_size, reset, total_records,
                   last_processed_id, previous_elapsed_time, runtime,
                   elapsed_time, tx, progress, runs, stored_at_start,
                   start_cursor, written, enqueued>>

\* mutant of LastId: the cursor is the first id of the batch
LastIdFirst(b) == b[1]

\* tickets[len(tickets) - 1].id
LastId(b) == b[Len(b)]

\* time.time() is read: d ticks have passed since it was last read
Clock(d) ==
    /\ previous_elapsed_time + runtime + d <= MaxElapsed
    /\ runtime' = runtime + d

Ticks == 0..MaxElapsed

\* inside transaction.atomic(): the new tokens (save per row in V0,
\* bulk_update in V1), last_processed_id, and in V0 elapsed_time
MutateBatch(d) ==
    /\ pc = "mutate"
    /\ tx' = Range(batch)
    /\ last_processed_id' = LastId(batch)
    /\ IF variant = "V0"
       THEN Clock(d) /\ elapsed_time' = previous_elapsed_time + runtime'
       ELSE d = 0 /\ UNCHANGED <<runtime, elapsed_time>>
    /\ pc' = "save_open"
    /\ UNCHANGED <<variant, db, store, queue, batch_size, reset, total_records,
                   previous_elapsed_time, batch, progress, runs, history>>

\* update_ticket_batch.delay(start_id, end_id), then the cursor and elapsed_time
Dispatch(d) ==
    /\ pc = "dispatch"
    /\ LET t == <<batch[1], LastId(batch)>> IN
         /\ queue' = queue (+) SetToBag({t})
         /\ enqueued' = Append(enqueued, t)
    /\ last_processed_id' = LastId(batch)
    /\ Clock(d)
    /\ elapsed_time' = previous_elapsed_time + runtime'
    /\ pc' = IF FileStore(variant) THEN "save_open" ELSE "save_last_id"
    /\ UNCHANGED <<variant, db, store, batch_size, reset, total_records,
                   previous_elapsed_time, batch, tx, progress, runs,
                   stored_at_start, start_cursor, batches, written>>

\* ticket.save() or bulk_update raises: the with block is left by the
\* exception, the transaction is rolled back, handle does not catch it
SaveFails ==
    /\ pc = "mutate"
    /\ pc' = "DatabaseError"
    /\ UNCHANGED <<variant, db, store, queue, locals, runtime, tx, progress, runs,
                   history>>

\* delay() raises: the broker is unreachable, nothing is enqueued
DispatchFails ==
    /\ pc = "dispatch"
    /\ pc' = "OperationalError"
    /\ UNCHANGED <<variant, db, store, queue, locals, runtime, tx, progress, runs,
                   history>>

\* where the runner goes once the checkpoint is saved: V0 and V1 save inside
\* the with block, so the commit is still to come
AfterSave(v) == IF Inline(v) THEN "commit" ELSE "progress"

\* open(CHECKPOINT_FILE, 'w') truncates the file
SaveOpen ==
    /\ pc = "save_open"
    /\ store' = Empty
    /\ pc' = "save_write"
    /\ UNCHANGED <<variant, db, queue, locals, runtime, tx, progress, runs, history>>

\* what save_checkpoint / save_last_processed_ticket_id leaves in the file
FileText(v, id, el) ==
    [exists |-> TRUE, id |-> IntText(id),
     el |-> IF v = "V1" THEN NoVal ELSE FloatText(el)]

\* the writes and the close of the file
SaveWrite ==
    /\ pc = "save_write"
    /\ store' = FileText(variant, last_processed_id, elapsed_time)
    /\ written' = Append(written, last_processed_id)
    /\ pc' = AfterSave(variant)
    /\ UNCHANGED <<variant, db, queue, locals, runtime, tx, progress, runs,
                   stored_at_start, start_cursor, batches, enqueued>>

\* redis_client.set(REDIS_KEY_LAST_ID, last_processed_id)
SaveSetLastId ==
    /\ pc = "save_last_id"
    /\ store' = [store EXCEPT !.id = IntText(last_processed_id)]
    /\ written' = Append(written, last_processed_id)
    /\ pc' = "save_elapsed"
    /\ UNCHANGED <<variant, db, queue, locals, runtime, tx, progress, runs,
                   stored_at_start, start_cursor, batches, enqueued>>

\* redis_client.set(REDIS_KEY_ELAPSED_TIME, elapsed_time)
SaveSetElapsed ==
    /\ pc = "save_elapsed"
    /\ store' = [store EXCEPT !.el = FloatText(elapsed_time)]
    /\ pc' = AfterSave(variant)
    /\ UNCHANGED <<variant, db, queue, locals, runtime, tx, progress, runs, history>>

\* the with block is left: the transaction commits
CommitBatch ==
    /\ pc = "commit"
    /\ gen' = [i \in DOMAIN gen |-> IF i \in tx THEN gen[i] + 1 ELSE gen[i]]
    /\ tx' = {}
    /\ pc' = "progress"
    /\ UNCHANGED <<variant, tickets, inserts, store, queue, locals, runtime,
                   progress, runs, history>>

\* the commit at the end of the with block raises: the batch is rolled
\* back; save_checkpoint has already run
CommitFails ==
    /\ pc = "commit"
    /\ tx' = {}
    /\ pc' = "DatabaseError"
    /\ UNCHANGED <<variant, db, store, queue, locals, runtime, progress, runs,
                   history>>

\* the progress line: processed / total and elapsed / processed are float
\* divisions, a zero divisor raises ZeroDivisionError; V1 reads the clock
\* between the two
ReportProgress(d) ==
    /\ pc = "progress"
    /\ IF variant = "V1" THEN Clock(d) ELSE d = 0 /\ UNCHANGED runtime
    /\ LET processed == CountUpTo(tickets, last_processed_id)
           el == IF variant = "V1" THEN runtime' ELSE elapsed_time
       IN IF total_records = 0 \/ processed = 0
          THEN pc' = "ZeroDivisionError" /\ UNCHANGED <<progress, elapsed_time>>
          ELSE /\ pc' = "fetch"
               /\ elapsed_time' = el
               /\ progress' = [processed |-> processed, total |-> total_records,
                               elapsed |-> el]
    /\ UNCHANGED <<variant, db, store, queue, batch_size, reset, total_records,
                   last_processed_id, previous_elapsed_time, batch, tx,
                   runs, history>>

\* ------------------------------------------------------- environment
\* mutant of InRange: the end of the range is excluded (id__lt)
InRangeEndExcluded(i, t) == i >= t[1] /\ i < t[2]

\* filter(id__gte=start_id, id__lte=end_id)
InRange(i, t) == i >= t[1] /\ i <= t[2]

\* a worker runs update_ticket_batch(start_id, end_id)
RunTask ==
    \E t \in BagToSet(queue) :
        /\ queue' = queue (-) SetToBag({t})
        /\ gen' = [i \in DOMAIN gen |->
                     IF i \in tickets /\ InRange(i, t)
                     THEN gen[i] + 1 ELSE gen[i]]
        /\ UNCHANGED <<variant, tickets, inserts, store, pc, locals, runtime, tx,
                       progress, runs, history>>

\* the process is terminated: an open transaction is rolled back, the
\* checkpoint store and the queue stay as they are
Kill ==
    /\ Running
    /\ pc' = "idle"
    /\ tx' = {}
    /\ ClearLocals
    /\ ClearHistory
    /\ UNCHANGED <<variant, db, store, queue, runs>>

\* another client inserts a ticket: the id comes from the sequence
InsertTicket ==
    /\ inserts < MaxInserts
    /\ inserts' = inserts + 1
    /\ tickets' = tickets \cup {MaxInitId + inserts + 1}
    /\ UNCHANGED <<variant, gen, store, queue, pc, locals, runtime, tx, progress,
                   runs, history>>

Options == {None} \cup (1..MaxBatch)

\* the command and what it shares the database and the store with
Runner ==
    \/ \E opt \in Options, rs \in BOOLEAN : Start(opt, rs)
    \/ ResetDeleteLastId
    \/ ResetDeleteElapsed
    \/ CountRecords
    \/ LoadCheckpoint
    \/ FetchBatch
    \/ \E d \in Ticks : MutateBatch(d)
    \/ SaveFails
    \/ \E d \in Ticks : Dispatch(d)
    \/ DispatchFails
    \/ SaveOpen
    \/ SaveWrite
    \/ SaveSetLastId
    \/ SaveSetElapsed
    \/ CommitBatch
    \/ CommitFails
    \/ \E d \in Ticks : ReportProgress(d)
    \/ Kill
    \/ InsertTicket

Next == Runner \/ RunTask

\* the whole system: the command, the other clients and the Celery workers
Spec == Init /\ [][Next]_vars

\* The checkpoint store holds anything when the command is started: every
\* combination of missing, unparseable and numeric texts.
StoredTexts == {NoVal, Junk} \cup {IntText(n) : n \in 0..MaxInitId}
                             \cup {FloatText(x) : x \in 0..MaxElapsed}

AnyStore(v) ==
    (IF FileStore(v) THEN {Absent} ELSE {})
        \cup {[exists |-> TRUE, id |-> a, el |-> b] : a, b \in StoredTexts}

\* handle has just been entered (Start), over any store
InitStore ==
    /\ variant \in Variants
    /\ tickets \in SUBSET (1..MaxInitId)
    /\ gen = [i \in 1..(MaxInitId + MaxInserts) |-> 0]
    /\ inserts = 0
    /\ store \in AnyStore(variant)
    /\ queue = EmptyBag
    /\ reset \in (IF variant = "V3" THEN BOOLEAN ELSE {FALSE})
    /\ pc = IF reset THEN "reset_last_id" ELSE "count"
    /\ batch_size \in {HandleBatchSize(variant, opt) : opt \in Options}
    /\ total_records = 0
    /\ last_processed_id = 0
    /\ previous_elapsed_time = 0
    /\ runtime = 0
    /\ elapsed_time = 0
    /\ batch = <<>>
    /\ tx = {}
    /\ progress = NoProgress
    /\ runs = 1
    /\ stored_at_start = store
    /\ start_cursor = 0
    /\ batches = <<>>
    /\ written = <<>>
    /\ enqueued = <<>>

\* the start of handle, up to the first fetch
LoadSteps ==
    \/ ResetDeleteLastId
    \/ ResetDeleteElapsed
    \/ CountRecords
    \/ LoadCheckpoint
    \/ FetchBatch

StoreSpec == InitStore /\ [][LoadSteps]_vars

\* the command without the workers: RunTask changes only queue and gen,
\* which no step of the command reads, so every property of the command's
\* own variables, of the store and of the inline commits is decided here
RunnerSpec == Init /\ [][Runner]_vars

\* Deferred mode left alone over a fixed record set: v2 or v3 is run to its
\* end, never killed and with a broker that accepts every task, while the
\* workers take tasks from the queue.
InitDeferred == Init /\ Deferred(variant)

DeferredRun ==
    \/ \E opt \in Options, rs \in BOOLEAN : Start(opt, rs)
    \/ ResetDeleteLastId
    \/ ResetDeleteElapsed
    \/ CountRecords
    \/ LoadCheckpoint
    \/ FetchBatch
    \/ \E d \in Ticks : Dispatch(d)
    \/ SaveOpen
    \/ SaveWrite
    \/ SaveSetLastId
    \/ SaveSetElapsed
    \/ \E d \in Ticks : ReportProgress(d)
    \/ RunTask

WorkerSpec == InitDeferred /\ [][DeferredRun]_vars

\* ------------------------------------------------------------ claims
\* the cursor a Load of the store would return now
StoredCursor == GetCheckpoint(variant, store).id

\* the largest id whose new token is committed, 0 when there is none
MaxCommitted ==
    LET done == {i \in tickets : gen[i] >= 1}
    IN IF done = {} THEN 0 ELSE Max(done)

\* C1: inline mode: in every reachable state the cursor stored in the
\* checkpoint is at most the largest id whose token update is committed
\* (the checkpoint is written only after the batch's commit).
\* Violated: V0 and V1 save the checkpoint inside the with block.
CheckpointNeverAheadOfCommit ==
    Inline(variant) => StoredCursor <= MaxCommitted

\* C2: inline mode, fixed record set: whenever a run, after any number of
\* kills and resumes, reaches Completed, every record has had its token
\* regenerated and committed at least once.
\* Violated: a kill between save_checkpoint and the commit (C1).
CompletedRunSkippedNoRecord ==
    (Inline(variant) /\ inserts = 0 /\ pc = "completed")
        => \A i \in tickets : gen[i] >= 1

\* C3: inline mode, fixed record set: across kills and resumes no record
\* has more than one committed token regeneration.
\* Violated: a kill while the checkpoint file is open for writing leaves it
\* empty, and the next run starts from cursor 0.
NoRecordMutatedTwice ==
    (Inline(variant) /\ inserts = 0) => \A i \in tickets : gen[i] <= 1

UnionOf(bs) == UNION {Range(bs[k]) : k \in 1..Len(bs)}

\* C4: a run that loaded cursor c fetches as its first batch the
\* up-to-batchSize smallest ids greater than c, in ascending order, and a
\* run that completes over a fixed record set has processed exactly the
\* records with id > c.
ResumeFromCursor ==
    LET after == {i \in tickets : i > start_cursor} IN
    /\ batches # <<>> =>
         LET b == batches[1] IN
         /\ \A k \in 1..Len(b) : b[k] \in after
         /\ \A k \in 1..(Len(b) - 1) : b[k] < b[k + 1]
         /\ \A i \in after \ Range(b) : \A k \in 1..Len(b) : b[k] < i
         /\ batch_size # None => Len(b) <= batch_size
         /\ (batch_size # None /\ inserts = 0) =>
                \/ Len(b) = batch_size
                \/ Len(b) < batch_size /\ Range(b) = after
    /\ (pc = "completed" /\ inserts = 0) => UnionOf(batches) = after

\* C4 witness: a run resumed from the saved cursor 1 over the fixed set
\* {1, 2} has fetched <<2>> first and has completed
ResumedRunCompleted ==
    /\ pc = "completed"
    /\ inserts = 0
    /\ GetCheckpoint(variant, stored_at_start).id = 1
    /\ start_cursor = 1
    /\ batches = << <<2>> >>

\* C5: within one run every cursor written to the checkpoint is at least
\* the cursor written before it and at least the cursor loaded at the start.
CursorWritesMonotonic ==
    \A k \in 1..Len(written) :
        /\ written[k] >= start_cursor
        /\ k > 1 => written[k] >= written[k - 1]

\* C5 witness: a resumed run has written two cursors
TwoWritesAfterResume ==
    /\ start_cursor >= 1
    /\ Len(written) >= 2

\* C10: an uninterrupted run from the default checkpoint over a fixed set
\* of N > 0 records with batch size B processes exactly ceil(N / B) batches,
\* every batch but the last holds exactly B records, and the cursor left in
\* the checkpoint is the largest id.
BatchCount ==
    (/\ pc = "completed" /\ start_cursor = 0 /\ inserts = 0
     /\ tickets # {} /\ batch_size # None)
    => LET N == Cardinality(tickets)
           B == batch_size
       IN /\ Len(batches) = (N + B - 1) \div B
          /\ \A k \in 1..(Len(batches) - 1) : Len(batches[k]) = B
          /\ StoredCursor = Max(tickets)

\* C10 witness: two records in batches of one: two batches, the cursor
\* left in the checkpoint is 2
TwoRecordsInTwoBatches ==
    /\ pc = "completed" /\ start_cursor = 0 /\ inserts = 0
    /\ tickets = {1, 2} /\ batch_size = 1
    /\ Len(batches) = 2
    /\ StoredCursor = 2

\* what the variant's own save leaves behind: an int and, except in V1, a
\* float; anything else is missing, partially present or unparseable
WellFormed(v, st) ==
    /\ st.exists
    /\ st.id.k = "int"
    /\ IF v = "V1" THEN st.el = NoVal ELSE st.el.k \in {"int", "float"}

Loaded == pc \in {"fetch", "mutate", "dispatch", "completed", "ValueError"}

\* C6: for every checkpoint store, file or Redis, a Load of a stored value
\* that is missing, partially present or unparseable returns the default
\* (cursor 0, elapsed 0.0) and raises nothing.
\* Violated: get_checkpoint of V3 guards only the missing key.
MalformedCheckpointLoadsDefault ==
    (Loaded /\ ~reset /\ ~WellFormed(variant, stored_at_start))
        => /\ pc # "ValueError"
           /\ start_cursor = 0
           /\ previous_elapsed_time = 0

\* C7: after reset_checkpoint, get_checkpoint returns the default whatever
\* was stored before, and the run started with --reset begins from the
\* first record.
ResetLoadsDefault ==
    reset =>
        /\ pc \in {"count", "load"} => GetCheckpoint(variant, store) = Default
        /\ Loaded => /\ pc # "ValueError"
                     /\ start_cursor = 0
                     /\ previous_elapsed_time = 0
                     /\ batches # <<>> => batches[1][1] = Min(tickets)

\* C7 witness: the store held cursor 2 and elapsed 1, the run with --reset
\* has fetched its first batch, which starts at ticket 1
ResetRunStartsOver ==
    /\ reset
    /\ GetCheckpoint(variant, stored_at_start) = [id |-> 2, el |-> 1, err |-> FALSE]
    /\ pc = "dispatch"
    /\ batches[1][1] = 1

\* the run found no record when it counted
CountedZero ==
    /\ pc \in {"load", "fetch", "mutate", "dispatch", "save_open", "save_write",
               "save_last_id", "save_elapsed", "commit", "progress",
               "completed", "ValueError", "ZeroDivisionError"}
    /\ total_records = 0

\* C8: when the record count is 0 at the start, the run ends as Completed
\* with zero batches processed: no record is mutated, no task is dispatched
\* and no checkpoint is saved.
\* Violated: V0 does not test the count; a ticket inserted between count()
\* and the first fetch is processed as a batch.
EmptySetShortCircuit ==
    CountedZero => /\ pc \in {"load", "fetch", "completed"}
                   /\ batches = <<>>
                   /\ written = <<>>
                   /\ enqueued = <<>>
                   /\ tx = {}

\* C9: the progress computation after a batch never fails with a division
\* by zero, for every reachable total (counted at the start) and processed
\* (rows with id <= cursor).
\* Violated: no divisor is guarded; V0 reaches total_records = 0 with a
\* batch processed.
ProgressNeverDividesByZero == pc # "ZeroDivisionError"

\* C11: deferred mode: a failed enqueue neither advances the cursor nor
\* saves a checkpoint, and a run resumed after a crash (without reset)
\* enqueues no identifier range that was already enqueued before the crash.
\* Violated: delay() comes before save_checkpoint; a kill between the two
\* leaves the range in the queue and the old cursor in the store.
NoRangeEnqueuedTwice ==
    Deferred(variant) =>
        /\ pc = "OperationalError" =>
              /\ Len(enqueued) = Len(batches) - 1
              /\ Len(written) = Len(batches) - 1
              /\ last_processed_id < batch[1]
        /\ ~reset => \A k \in 1..Len(enqueued) : CopiesIn(enqueued[k], queue) = 1

\* the cursor the checkpoint held when the current batch was fetched
CursorBeforeBatch ==
    IF Len(batches) >= 2 THEN LastId(batches[Len(batches) - 1]) ELSE start_cursor

\* C12: inline mode: when applying a batch fails (a record save, the bulk
\* update or the commit), none of its token changes is persisted and the
\* stored checkpoint is what it was before the batch.
\* Violated: the checkpoint is saved inside the with block (C1), so a
\* failing commit rolls the batch back and leaves the advanced cursor.
FailedBatchLeavesCheckpoint ==
    (Inline(variant) /\ pc = "DatabaseError") =>
        /\ tx = {}
        /\ Len(written) = Len(batches) - 1
        /\ StoredCursor = CursorBeforeBatch

\* C13: batches are issued in strictly ascending id order and never
\* overlap: every id of a batch is above every id of the batches before it,
\* the cursor checkpointed for a batch is its largest id, no later batch of
\* the run holds an id at or below a checkpointed cursor, and a run resumed
\* (without reset) from a stored cursor holds no id at or below it.
BatchesAscendNeverOverlap ==
    /\ \A k \in 1..Len(batches) :
          /\ \A j \in 2..Len(batches[k]) : batches[k][j - 1] < batches[k][j]
          /\ \A m \in 1..(k - 1) :
                \A i \in Range(batches[m]), i2 \in Range(batches[k]) : i < i2
    /\ Len(written) <= Len(batches)
    /\ \A w \in 1..Len(written) :
          /\ written[w] = Max(Range(batches[w]))
          /\ \A k \in (w + 1)..Len(batches) :
                \A i \in Range(batches[k]) : i > written[w]
    /\ (~reset /\ batches # <<>>) =>
          \A i \in UnionOf(batches) : i > GetCheckpoint(variant, stored_at_start).id

\* C13 witness: a run resumed from the stored cursor 1 has checkpointed its
\* first batch and fetched a second one
ResumedRunSecondBatch ==
    /\ ~reset
    /\ GetCheckpoint(variant, stored_at_start).id = 1
    /\ Len(written) = 1
    /\ batches = << <<2>>, <<3>> >>

\* how many times the run has fetched, to apply it, the batch it holds
Attempts == Cardinality({k \in 1..Len(batches) : batches[k] = batch})

\* C14: inline mode: when applying a batch fails, the runner retries the
\* same batch a bounded number of times, and the run ends as Failed only
\* after the retries: a failed run has attempted its last batch more than
\* once.
\* Violated: handle has no try block and no retry; the first exception
\* ends the run.
FailedOnlyAfterRetries ==
    (Inline(variant) /\ pc = "DatabaseError") => Attempts >= 2

\* the (cursor, elapsed) pair the save now under way is writing; V1 stores
\* no elapsed time and loads 0 for it
PairBeingSaved ==
    [id |-> last_processed_id,
     el |-> IF variant = "V1" THEN 0 ELSE elapsed_time,
     err |-> FALSE]

\* C15: whenever the process is terminated, also in the middle of
\* save_checkpoint, a later Load returns the default (only when nothing
\* was ever saved) or a pair written by one single save: at every step
\* outside reset_checkpoint the pair a Load would return either stays what
\* it was or becomes the complete pair of the save under way.
\* Violated: opening the file for writing discards the saved pair; the two
\* Redis keys are set one after the other.
CheckpointWriteAtomic ==
    [][pc \notin {"reset_last_id", "reset_elapsed"} =>
          \/ GetCheckpoint(variant, store') = GetCheckpoint(variant, store)
          \/ GetCheckpoint(variant, store') = PairBeingSaved]_vars

\* the ranges the run has enqueued that hold id i
RangesHolding(i) ==
    {k \in 1..Len(enqueued) : enqueued[k][1] <= i /\ i <= enqueued[k][2]}

\* a task has been taken from the queue in this step
TaskTaken(t) == CopiesIn(t, queue') = CopiesIn(t, queue) - 1

\* C16: deferred mode, record set fixed during an uninterrupted run from
\* cursor c: once the run has completed and every enqueued task has
\* executed, every record with id > c has had its token regenerated and
\* lies in exactly one enqueued range (the records up to c lie in none),
\* and a task changes no record outside its own [start, end] range.
DeferredCoverage ==
    /\ []((/\ Deferred(variant) /\ pc = "completed" /\ queue = EmptyBag
           /\ total_records = Cardinality(tickets))
          => \A i \in tickets :
                IF i > start_cursor
                THEN gen[i] >= 1 /\ Cardinality(RangesHolding(i)) = 1
                ELSE RangesHolding(i) = {})
    /\ [][\A i \in DOMAIN gen :
            gen'[i] # gen[i] =>
                \E t \in BagToSet(queue) :
                    TaskTaken(t) /\ t[1] <= i /\ i <= t[2]]_vars

\* C16 witness: v2 or v3 has completed over {1, 2} in two batches, both
\* tasks have executed and both tokens are regenerated
TwoTasksExecuted ==
    /\ Deferred(variant) /\ pc = "completed" /\ queue = EmptyBag
    /\ tickets = {1, 2} /\ total_records = 2 /\ start_cursor = 0
    /\ enqueued = << <<1, 1>>, <<2, 2>> >>
    /\ gen[1] = 1 /\ gen[2] = 1

\* the elapsed time a Load of the store would return now
StoredElapsed == GetCheckpoint(variant, store).el

\* C17: the elapsed time saved with each checkpoint is the elapsed time
\* loaded at the start of the run plus the time spent in the run, and a run
\* resumed (without reset) starts from the elapsed time the store held.
\* Violated: v1 stores the cursor only and measures from start_time.
ElapsedAccumulates ==
    /\ pc \in {"commit", "progress"} =>
          StoredElapsed = previous_elapsed_time + runtime
    /\ (pc \in {"fetch", "mutate", "dispatch"} /\ ~reset) =>
          previous_elapsed_time = GetCheckpoint(variant, stored_at_start).el

\* C18: across the progress events of one run the processed count is
\* non-decreasing, and when the record set has not changed since the count
\* at the start the reported percent, 100 * processed / total, lies in
\* [0, 100], also in a run resumed from a checkpoint.
ProgressMonotonic ==
    [][(progress' # progress /\ progress' # NoProgress) =>
          /\ progress'.processed >= progress.processed
          /\ progress'.total = Cardinality(tickets') =>
                /\ progress'.total > 0
                /\ 0 <= progress'.processed
                /\ progress'.processed <= progress'.total]_vars

\* C18 witness: a run resumed from cursor 1 over three records has
\* reported its second progress event, 3 of 3
ResumedRunReportedAll ==
    /\ start_cursor = 1
    /\ Len(batches) = 2
    /\ pc = "fetch"
    /\ progress = [processed |-> 3, total |-> 3, elapsed |-> progress.elapsed]
    /\ Cardinality(tickets) = 3

\* C19: the estimated remaining time reported after a batch,
\* (elapsed / processed) * total - elapsed, is never negative, also when
\* records inserted after the count make processed exceed total; with
\* processed > 0 that is elapsed * total >= elapsed * processed.
\* Violated: no command floors the difference at zero.
RemainingTimeNeverNegative ==
    progress # NoProgress =>
        progress.elapsed * progress.total >= progress.elapsed * progress.processed

\* the default the claim names for the command
DefaultBatchSize(v) == IF v = "V0" THEN BATCH_SIZE_V0 ELSE BATCH_SIZE

\* C20: in a run the batch size is the --batch-size option or, without
\* the option, the command's default BATCH_SIZE (1000 in protect_tickets,
\* 500 in the improved variants), and every fetched batch holds at most
\* that many records.
\* Violated: protect_tickets declares no default for the option, so
\* kwargs.get returns None and the slice [:None] is unbounded.
BatchSizeBoundAndDefault ==
    pc # "idle" =>
        /\ batch_size \in (1..MaxBatch) \cup {DefaultBatchSize(variant)}
        /\ \A k \in 1..Len(batches) : Len(batches[k]) <= batch_size
====
